---- MODULE Spec2Model ----
(***************************************************************************)
(* Verification model of the digler file carver: the block scanner         *)
(* (format.Scanner), the signature registry (format.FileRegistry) and the  *)
(* prefix table (table.PrefixTable) it dispatches through.                 *)
(*                                                                         *)
(* Bytes are drawn from 0..MaxByte, regions are a few blocks long and a    *)
(* format scanner (validator) is an oracle: invoked on a candidate it      *)
(* either fails or returns a size.                                         *)
(***************************************************************************)
EXTENDS Integers, Sequences, FiniteSets, TLC

\* ------------------------------------------------------------------ bounds
MaxBlockSize == 2
MaxBufferSize == 2
MaxRegion == 3
MaxByte == 2
MaxResult == 3

\* ------------------------------------------------------- program constants
TableSize == 65536
none == 0
presentMarker == 1
elemMarker == 2
\* Options.MaxFileSize, the --max-file-size of the scan command
MaxFileSize == 2

Bytes == 0..MaxByte
BlockSizes == 1..MaxBlockSize
BufferSizes == 1..MaxBufferSize
RegionSizes == 0..MaxRegion
Results == 0..MaxResult

Min(a, b) == IF a < b THEN a ELSE b

\* ------------------------------------------------------------- PrefixTable
\* h = (h << 2) + uint16(b), on 16 bits
hashStep(h, b) == ((h * 4) + b) % TableSize

RECURSIVE hashOf(_)
hashOf(key) ==
  IF key = <<>> THEN 0
  ELSE hashStep(hashOf(SubSeq(key, 1, Len(key) - 1)), key[Len(key)])

newTable == [table |-> [h \in {} |-> none], elems |-> [k \in {} |-> <<>>]]

marker(t, h) == IF h \in DOMAIN t.table THEN t.table[h] ELSE none

setMarker(tbl, h, m) == [x \in (DOMAIN tbl) \cup {h} |-> IF x = h THEN m ELSE tbl[x]]

Max(a, b) == IF a > b THEN a ELSE b

RECURSIVE markPrefixes(_, _, _)
markPrefixes(tbl, key, i) ==
  IF i > Len(key) THEN tbl
  ELSE LET h == hashOf(SubSeq(key, 1, i))
           cur == IF h \in DOMAIN tbl THEN tbl[h] ELSE none
       IN markPrefixes(setMarker(tbl, h, Max(cur, presentMarker)), key, i + 1)

\* Insert, with only the hash of the whole key marked
InsertUnmarked(t, key, v) ==
  [table |-> setMarker(t.table, hashOf(key), elemMarker),
   elems |-> [k \in (DOMAIN t.elems) \cup {key} |-> IF k = key THEN v ELSE t.elems[k]]]

\* t.table[h] of every prefix raised to presentMarker, of the key set to
\* elemMarker; t.elems[string(key)] = v
Insert(t, key, v) ==
  [table |-> setMarker(markPrefixes(t.table, key, 1), hashOf(key), elemMarker),
   elems |-> [k \in (DOMAIN t.elems) \cup {key} |-> IF k = key THEN v ELSE t.elems[k]]]

Get(t, key) == IF key \in DOMAIN t.elems THEN t.elems[key] ELSE <<>>

\* The values Walk hands to onMatch, in order, as long as onMatch declines.
RECURSIVE Walk(_, _, _)
Walk(t, key, i) ==
  IF i > Len(key) THEN <<>>
  ELSE LET pre == SubSeq(key, 1, i)
           m == marker(t, hashOf(pre))
       IN IF m = none THEN <<>>
          ELSE IF m = elemMarker /\ pre \in DOMAIN t.elems
               THEN <<t.elems[pre]>> \o Walk(t, key, i + 1)
               ELSE Walk(t, key, i + 1)

\* ------------------------------------------------------------ FileRegistry
\* The registered headers: "a" and "b" share a signature, "c" extends it.
fileHeaders ==
  << [Ext |-> "a", Signatures |-> << <<1>> >>],
     [Ext |-> "b", Signatures |-> << <<1>> >>],
     [Ext |-> "c", Signatures |-> << <<1, 2>> >>] >>

RECURSIVE addSigs(_, _, _)
addSigs(t, hdr, i) ==
  IF i > Len(hdr.Signatures) THEN t
  ELSE LET sig == hdr.Signatures[i]
       IN addSigs(Insert(t, sig, Append(Get(t, sig), hdr.Ext)), hdr, i + 1)

Add(t, hdr) == addSigs(t, hdr, 1)

RECURSIVE addAll(_, _, _)
addAll(t, hdrs, i) ==
  IF i > Len(hdrs) THEN t ELSE addAll(Add(t, hdrs[i]), hdrs, i + 1)

BuildRegistry == addAll(newTable, fileHeaders, 1)

RECURSIVE flatten(_)
flatten(ss) == IF ss = <<>> THEN <<>> ELSE Head(ss) \o flatten(Tail(ss))

\* The headers Search offers to handleHeader, in order, while it declines.
SearchIn(t, data) ==
  IF Cardinality(DOMAIN t.elems) = 0 THEN <<>>
  ELSE flatten(Walk(t, data, 1))

\* Search on the registry of the program's own headers
Search(data) == SearchIn(BuildRegistry, data)

\* ----------------------------------------------------------------- Scanner
roundToMul(k, m) == ((k + m - 1) \div m) * m

VARIABLES
  blockSize,    \* sc.blockSize
  buf,          \* sc.buf
  size,         \* the size argument of Scan: the length of the region
  blockOffset,  \* Scan: byte offset of the buffer being scanned
  stop,         \* Scan: set once yield returned false
  n,            \* Scan: number of blocks to scan in the buffer
  err,          \* Scan: the error of the last ReadAt ("nil" or "EOF")
  blockIdx,     \* scanBuffer: block cursor in the buffer
  fsize,        \* scanBuffer: size returned by the last scanFile call
  pending,      \* headers Search has still to offer at the current block
  filesFound,   \* Scan: number of yields
  pc,           \* position in Scan
  emitted,      \* the FileInfo records handed to yield, in order
  calls,        \* history: every ScanFile invocation, in order
  examined,     \* history: the global offsets handed to Search, in order
  readFailed    \* history: ReadAt failed with an error other than EOF

vars == <<blockSize, buf, size, blockOffset, stop, n, err, blockIdx, fsize,
          pending, filesFound, pc, emitted, calls, examined, readFailed>>

\* The state of the components that are exercised on their own, apart from a
\* scan: they are idle while Scan runs, and Scan is idle while they run.
VARIABLES
  src,          \* Reader: the bytes of the underlying io.ReadSeeker
  rd,           \* Reader: the Reader and its BufferedReadSeeker
  last,         \* Reader history: the last call and what it returned
  ops,          \* Reader history: number of calls made
  registry,     \* FileRegistry: its PrefixTable
  registered,   \* FileRegistry history: the scanners added, in order
  searched,     \* FileRegistry history: the last Search and its visits
  scanned,      \* validator: what the last ScanFile call on rd returned
  img,          \* report: the bytes of the image
  job,          \* report: the partition scanned and Options.MaxScanSize
  report,       \* report: the ByteRuns written to the report, in order
  dumped,       \* report history: the bytes of each carve, as the scan dumps them
  recovered,    \* report: the bytes RunRecover dumps for each report entry
  phase,        \* report: "scan", then "reported", then "recovered"
  disk,         \* discovery: the image file, by its length and first sector
  discovered,   \* discovery: what DiscoverPartitions returned
  pngIn,        \* ScanPNG: the chunks of the stream after the PNG header
  dec,          \* ScanPNG: the decoder, its stage and the next chunk to parse
  pngOut        \* ScanPNG: "running", then what ScanPNG returned

readerVars == <<src, rd, last, ops>>

registryVars == <<registry, registered, searched>>

\* no scan is running: a Scanner whose Scan has returned
scannerIdle ==
  /\ blockSize = 1
  /\ buf = <<0>>
  /\ size = 0
  /\ blockOffset = 0
  /\ stop = FALSE
  /\ n = 0
  /\ err = "nil"
  /\ blockIdx = 0
  /\ fsize = 0
  /\ pending = <<>>
  /\ filesFound = 0
  /\ pc = "done"
  /\ emitted = <<>>
  /\ calls = <<>>
  /\ examined = <<>>
  /\ readFailed = FALSE

readerIdle ==
  /\ src = <<>>
  /\ rd = 0
  /\ last = 0
  /\ ops = 0

registryIdle ==
  /\ registry = 0
  /\ registered = <<>>
  /\ searched = 0

validatorVars == <<src, rd, scanned>>

reportVars == <<img, job, report, dumped, recovered, phase>>

discoverVars == <<disk, discovered>>

pngVars == <<pngIn, dec, pngOut>>

validatorIdle == scanned = 0

reportIdle ==
  /\ img = <<>>
  /\ job = 0
  /\ report = <<>>
  /\ dumped = <<>>
  /\ recovered = <<>>
  /\ phase = "idle"

discoverIdle ==
  /\ disk = 0
  /\ discovered = 0

pngIdle ==
  /\ pngIn = <<>>
  /\ dec = 0
  /\ pngOut = "idle"

others ==
  <<readerVars, registryVars, scanned, reportVars, discoverVars, pngVars>>

othersIdle ==
  /\ readerIdle /\ registryIdle /\ validatorIdle /\ reportIdle /\ discoverIdle
  /\ pngIdle

exceptReader ==
  <<vars, registryVars, scanned, reportVars, discoverVars, pngVars>>

exceptReaderIdle ==
  /\ scannerIdle /\ registryIdle /\ validatorIdle /\ reportIdle /\ discoverIdle
  /\ pngIdle

exceptRegistry ==
  <<vars, readerVars, scanned, reportVars, discoverVars, pngVars>>

exceptRegistryIdle ==
  /\ scannerIdle /\ readerIdle /\ validatorIdle /\ reportIdle /\ discoverIdle
  /\ pngIdle

exceptValidator ==
  <<vars, registryVars, last, ops, reportVars, discoverVars, pngVars>>

exceptValidatorIdle ==
  /\ scannerIdle /\ registryIdle /\ reportIdle /\ discoverIdle /\ pngIdle
  /\ last = 0
  /\ ops = 0

exceptReport ==
  <<vars, readerVars, registryVars, scanned, discoverVars, pngVars>>

exceptReportIdle ==
  /\ scannerIdle /\ readerIdle /\ registryIdle /\ validatorIdle /\ discoverIdle
  /\ pngIdle

exceptDiscover ==
  <<vars, readerVars, registryVars, scanned, reportVars, pngVars>>

exceptDiscoverIdle ==
  /\ scannerIdle /\ readerIdle /\ registryIdle /\ validatorIdle /\ reportIdle
  /\ pngIdle

exceptPng ==
  <<vars, readerVars, registryVars, scanned, reportVars, discoverVars>>

exceptPngIdle ==
  /\ scannerIdle /\ readerIdle /\ registryIdle /\ validatorIdle /\ reportIdle
  /\ discoverIdle

globalOffset == ((blockOffset \div blockSize) + blockIdx) * blockSize

Init ==
  /\ blockSize \in BlockSizes
  /\ \E bufferSize \in BufferSizes :
       buf = [i \in 1..roundToMul(bufferSize, blockSize) |-> 0]
  /\ size \in RegionSizes
  /\ blockOffset = 0
  /\ stop = FALSE
  /\ n = 0
  /\ err = "nil"
  /\ blockIdx = 0
  /\ fsize = 0
  /\ pending = <<>>
  /\ filesFound = 0
  /\ pc = "loop"
  /\ emitted = <<>>
  /\ calls = <<>>
  /\ examined = <<>>
  /\ readFailed = FALSE
  /\ othersIdle

\* for !stop && blockOffset < size: the loop ends, the final render is done
LoopExit ==
  /\ pc = "loop"
  /\ stop \/ blockOffset >= size
  /\ pc' = "done"
  /\ UNCHANGED others
  /\ UNCHANGED <<blockSize, buf, size, blockOffset, stop, n, err, blockIdx,
                 fsize, pending, filesFound, emitted, calls, examined,
                 readFailed>>

\* r.ReadAt fails with an error other than io.EOF: Scan returns
ReadFail ==
  /\ pc = "loop"
  /\ ~stop /\ blockOffset < size
  /\ pc' = "done"
  /\ readFailed' = TRUE
  /\ UNCHANGED others
  /\ UNCHANGED <<blockSize, buf, size, blockOffset, stop, n, err, blockIdx,
                 fsize, pending, filesFound, emitted, calls, examined>>

\* r.ReadAt(sc.buf, blockOffset) on a source of `size` bytes, then the
\* block count of the buffer; scanBuffer starts at block 0
ReadAt ==
  /\ pc = "loop"
  /\ ~stop /\ blockOffset < size
  /\ LET nread == Min(Len(buf), size - blockOffset)
     IN /\ \E data \in [1..nread -> Bytes] :
             buf' = [i \in 1..Len(buf) |-> IF i <= nread THEN data[i] ELSE buf[i]]
        /\ err' = IF nread < Len(buf) THEN "EOF" ELSE "nil"
        /\ n' = roundToMul(nread, blockSize) \div blockSize
  /\ blockIdx' = 0
  /\ pc' = "scan"
  /\ UNCHANGED others
  /\ UNCHANGED <<blockSize, size, blockOffset, stop, fsize, pending,
                 filesFound, emitted, calls, examined, readFailed>>

\* advance, with a rejected block skipping two blocks instead of one
advanceSkips(s) ==
  IF s > 0 THEN blockIdx + (roundToMul(s, blockSize) \div blockSize)
  ELSE blockIdx + 2

\* the cursor after the walk at the current block ended with size s
advance(s) ==
  IF s > 0 THEN blockIdx + (roundToMul(s, blockSize) \div blockSize)
  ELSE blockIdx + 1

\* scanBuffer: one block; Search on the buffer from the block on
ScanBlock ==
  /\ pc = "scan"
  /\ blockIdx < n
  /\ LET visits == Search(SubSeq(buf, blockIdx * blockSize + 1, Len(buf)))
     IN /\ examined' = Append(examined, globalOffset)
        /\ fsize' = 0
        /\ IF visits = <<>>
           THEN /\ blockIdx' = advance(0)
                /\ pending' = <<>>
                /\ pc' = "scan"
           ELSE /\ blockIdx' = blockIdx
                /\ pending' = visits
                /\ pc' = "walk"
  /\ UNCHANGED others
  /\ UNCHANGED <<blockSize, buf, size, blockOffset, stop, n, err, filesFound,
                 emitted, calls, readFailed>>

\* scanBuffer returned: break on io.EOF, else the next buffer
EndBuffer ==
  /\ pc = "scan"
  /\ blockIdx >= n
  /\ IF err = "EOF"
     THEN /\ pc' = "done"
          /\ blockOffset' = blockOffset
     ELSE /\ pc' = "loop"
          /\ blockOffset' = blockOffset + Len(buf)
  /\ UNCHANGED others
  /\ UNCHANGED <<blockSize, buf, size, stop, n, err, blockIdx, fsize, pending,
                 filesFound, emitted, calls, examined, readFailed>>

\* what follows a scanFile call that returned s to Search's handler
afterCall(s) ==
  /\ fsize' = s
  /\ IF s > 0 \/ Len(pending) = 1
     THEN /\ pending' = <<>>
          /\ blockIdx' = advance(s)
          /\ pc' = "scan"
     ELSE /\ pending' = Tail(pending)
          /\ blockIdx' = blockIdx
          /\ pc' = "walk"

\* ValidatorReject, with the error ending the scan
ValidatorRejectAborts ==
  /\ pc = "walk"
  /\ pending # <<>>
  /\ calls' = Append(calls, [offset |-> globalOffset, ext |-> Head(pending),
                             failed |-> TRUE, res |-> 0])
  /\ pc' = "done"
  /\ UNCHANGED others
  /\ UNCHANGED <<blockSize, buf, size, blockOffset, stop, n, err, blockIdx,
                 fsize, pending, filesFound, emitted, examined, readFailed>>

\* hdr.ScanFile returns an error: the callback returns 0
ValidatorReject ==
  /\ pc = "walk"
  /\ pending # <<>>
  /\ calls' = Append(calls, [offset |-> globalOffset, ext |-> Head(pending),
                             failed |-> TRUE, res |-> 0])
  /\ afterCall(0)
  /\ UNCHANGED others
  /\ UNCHANGED <<blockSize, buf, size, blockOffset, stop, n, err, filesFound,
                 emitted, examined, readFailed>>

\* hdr.ScanFile returns s without error: the record is yielded, the callback
\* returns s
ValidatorAccept ==
  /\ pc = "walk"
  /\ pending # <<>>
  /\ \E s \in Results, cont \in BOOLEAN :
       /\ calls' = Append(calls, [offset |-> globalOffset, ext |-> Head(pending),
                                  failed |-> FALSE, res |-> s])
       /\ emitted' = Append(emitted, [Offset |-> globalOffset, Size |-> s,
                                      Format |-> Head(pending)])
       /\ stop' = ~cont
       /\ filesFound' = filesFound + 1
       /\ afterCall(s)
  /\ UNCHANGED others
  /\ UNCHANGED <<blockSize, buf, size, blockOffset, n, err, examined,
                 readFailed>>

\* hdr.ScanFile returns without error after yield has returned false, and
\* yield is the body of a range loop: the runtime panics on the second call
YieldPanic ==
  /\ pc = "walk"
  /\ pending # <<>>
  /\ stop
  /\ \E s \in Results :
       calls' = Append(calls, [offset |-> globalOffset, ext |-> Head(pending),
                               failed |-> FALSE, res |-> s])
  /\ pc' = "panic"
  /\ UNCHANGED others
  /\ UNCHANGED <<blockSize, buf, size, blockOffset, stop, n, err, blockIdx,
                 fsize, pending, filesFound, emitted, examined, readFailed>>

\* What Scan hands back to its caller besides the yielded records: the
\* iterator func(yield func(FileInfo) bool) has no result, so no error.
ScanErr == "nil"

Next ==
  \/ LoopExit
  \/ ReadFail
  \/ ReadAt
  \/ ScanBlock
  \/ EndBuffer
  \/ ValidatorReject
  \/ ValidatorAccept
  \/ YieldPanic

Spec == Init /\ [][Next]_vars

\* ------------------------------------------------------------------ claims
accepted(c) == ~c.failed
carved(c) == ~c.failed /\ c.res > 0
examinedAt(o) == {i \in DOMAIN examined : examined[i] = o}
callsAt(o) == {i \in DOMAIN calls : calls[i].offset = o}
emittedAt(o) == {i \in DOMAIN emitted : emitted[i].Offset = o}

\* C1: for any two records A then B emitted by one scan, B.offset >=
\* round_up(A.offset + A.size, block_size), also when A's carve extends past
\* the end of the scan buffer in which A was found.
C1_NonOverlap ==
  \A i, j \in DOMAIN emitted :
    i < j => emitted[j].Offset >=
               roundToMul(emitted[i].Offset + emitted[i].Size, blockSize)

\* C2: the emitted offsets are strictly increasing (no two records share an
\* offset) and every emitted offset is a multiple of block_size.
C2_MonotoneOffsets ==
  /\ \A i, j \in DOMAIN emitted : i < j => emitted[i].Offset < emitted[j].Offset
  /\ \A i \in DOMAIN emitted : emitted[i].Offset % blockSize = 0

\* C3: every emitted record has size <= max_file_size and offset + size <=
\* region end; a validator result that overshoots is never emitted.
C3_BoundRespect ==
  \A i \in DOMAIN emitted :
    /\ emitted[i].Size <= MaxFileSize
    /\ emitted[i].Offset + emitted[i].Size <= size

\* C4: every emitted record has size > 0; a validator that returns size zero
\* without an error is treated as a rejection and no record is emitted for it.
C4_PositiveSize ==
  \A i \in DOMAIN emitted : emitted[i].Size > 0

\* C5: once yield has returned false, no further validator is invoked and
\* yield is not called again before Scan returns.
C5_NothingAfterStop ==
  [][stop => (calls' = calls /\ emitted' = emitted)]_vars

\* C6: after a carve at offset o with size s is accepted, the next candidate
\* offset examined is exactly round_up(o + s, block_size), and no validator is
\* invoked at an offset below it for the rest of the scan.
C6_NextCandidateAfterCarve ==
  \A k \in DOMAIN calls :
    carved(calls[k]) =>
      LET o == calls[k].offset
          nxt == roundToMul(o + calls[k].res, blockSize)
          later == {e \in {examined[i] : i \in DOMAIN examined} : e > o}
      IN /\ \A e \in later : e >= nxt
         /\ later # {} => nxt \in later
         /\ \A j \in DOMAIN calls : j > k => calls[j].offset >= nxt

\* C7: when more than one validator would accept at an offset, exactly one
\* record is emitted for that offset, it comes from the first accepting
\* validator in visiting order, and no validator after it is invoked there.
C7_FirstAcceptanceWins ==
  \A k \in DOMAIN calls :
    (accepted(calls[k]) /\ pc # "panic"
       /\ \A j \in DOMAIN calls :
            (j < k /\ calls[j].offset = calls[k].offset) => ~accepted(calls[j]))
    => /\ \A j \in callsAt(calls[k].offset) : j <= k
       /\ Cardinality(emittedAt(calls[k].offset)) = 1
       /\ \A i \in emittedAt(calls[k].offset) : emitted[i].Format = calls[k].ext

C9_ReadFailureSurfaced ==
  (pc = "done" /\ readFailed) => ScanErr # "nil"

\* C10: when no validator accepts at a block the next candidate is exactly one
\* block further, so every block-aligned offset of the region that no accepted
\* carve covers is examined exactly once.
covered(o) ==
  \E i \in DOMAIN emitted :
    emitted[i].Offset < o /\ o < emitted[i].Offset + emitted[i].Size

C11_ShortTailNotScanned ==
  /\ pc \in {"scan", "walk"}
       => n = Min(Len(buf), size - blockOffset) \div blockSize
  /\ \A i \in DOMAIN examined : examined[i] + blockSize <= size

\* ------------------------------------------------------------------ Reader
\* format.Reader over a reader.BufferedReadSeeker over an io.ReadSeeker that
\* holds the bytes src. rd is the record
\*   [n, size]                        Reader.n, Reader.size (the cap)
\*   [buf, bufCap, currPos, off]      BufferedReadSeeker; buf is buf[:size]
\*   [srcOff]                         the read offset of the io.ReadSeeker
MaxSrcLen == 3
MaxCap == 3
MaxBufCap == 2
MaxReq == 2
MaxOps == 2

SrcBytes == 0..1
Sources == UNION {[1..k -> SrcBytes] : k \in 0..MaxSrcLen}
Caps == 0..MaxCap
BufCaps == 1..MaxBufCap
Requests == 0..MaxReq
Windows == 0..MaxSrcLen
Sigs == {<<1>>, <<1, 1>>}

\* the position of the BufferedReadSeeker in the source
position(r) == r.currPos + r.off

\* src.Read(b.buf[copied:]) after the slide of the unread bytes
fillBuffer(r) ==
  LET kept == SubSeq(r.buf, r.off + 1, Len(r.buf))
      k    == Min(r.bufCap - Len(kept), Max(0, Len(src) - r.srcOff))
  IN [r EXCEPT !.buf = kept \o SubSeq(src, r.srcOff + 1, r.srcOff + k),
               !.currPos = r.currPos + r.off,
               !.off = 0,
               !.srcOff = r.srcOff + k]

RECURSIVE readLoop(_, _, _)
readLoop(r, len, out) ==
  IF Len(out) >= len THEN [r |-> r, out |-> out, err |-> "nil"]
  ELSE LET f == IF r.off >= Len(r.buf) THEN fillBuffer(r) ELSE r
       IN IF Len(f.buf) = 0 THEN [r |-> f, out |-> out, err |-> "EOF"]
          ELSE LET k == Min(len - Len(out), Len(f.buf) - f.off)
               IN readLoop([f EXCEPT !.off = f.off + k], len,
                           out \o SubSeq(f.buf, f.off + 1, f.off + k))

\* BufferedReadSeeker.Read(p), len(p) = len
BufRead(r, len) == readLoop(r, len, <<>>)

\* BufferedReadSeeker.Seek(delta, io.SeekCurrent)
BufSeek(r, delta) ==
  LET offset == r.currPos + r.off + delta
  IN IF offset < 0 THEN [r |-> r, offset |-> -1, err |-> "error"]
     ELSE IF offset >= r.currPos /\ offset < r.currPos + Len(r.buf)
     THEN [r |-> [r EXCEPT !.off = offset - r.currPos],
           offset |-> offset, err |-> "nil"]
     ELSE [r |-> [r EXCEPT !.off = 0, !.buf = <<>>, !.currPos = offset,
                           !.srcOff = offset],
           offset |-> offset, err |-> "nil"]

\* BufferedReadSeeker.Peek(k)
BufPeek(r, k) ==
  IF k > r.bufCap THEN [r |-> r, out |-> <<>>, err |-> "error"]
  ELSE LET f == IF r.off + k > Len(r.buf) THEN fillBuffer(r) ELSE r
       IN IF k > Len(f.buf) - f.off
          THEN [r |-> f, out |-> SubSeq(f.buf, f.off + 1, Len(f.buf)),
                err |-> "EOF"]
          ELSE [r |-> f, out |-> SubSeq(f.buf, f.off + 1, f.off + k),
                err |-> "nil"]

\* NewReader(r, size) on a fresh BufferedReadSeeker of capacity bufCap
NewReader(bufCap, cap) ==
  [n |-> 0, size |-> cap, buf |-> <<>>, bufCap |-> bufCap, currPos |-> 0,
   off |-> 0, srcOff |-> 0]

\* the cap test, with a reader at its cap still allowed to read
capReachedLate(r) == r.n > r.size

\* if r.n >= r.size: the cap test of ReadByte and Read
capReached(r) == r.n >= r.size

\* Reader.ReadByte
ReadByte(r) ==
  IF capReached(r)
  THEN [r |-> r, count |-> 0, out |-> <<>>, err |-> "EOF"]
  ELSE LET b == BufRead(r, 1)
       IN IF b.err = "nil"
          THEN [r |-> [b.r EXCEPT !.n = r.n + 1], count |-> 1,
                out |-> b.out, err |-> "nil"]
          ELSE [r |-> b.r, count |-> 0, out |-> <<>>, err |-> b.err]

\* Reader.Read(buf), len(buf) = len
Read(r, len) ==
  IF capReached(r)
  THEN [r |-> r, count |-> 0, out |-> <<>>, err |-> "EOF"]
  ELSE LET b == BufRead(r, len)
       IN [r |-> [b.r EXCEPT !.n = r.n + Len(b.out)], count |-> Len(b.out),
           out |-> b.out, err |-> b.err]

\* Reader.Unread(k)
Unread(r, k) ==
  LET s == BufSeek(r, -k)
  IN [r |-> s.r, count |-> 0, out |-> <<>>, err |-> s.err]

\* min(uint64(k), m) for an int k and an m below 2^63: a negative k converts
\* to a value of at least 2^63
minU64(k, m) == IF k < 0 THEN m ELSE Min(k, m)

\* d < uint64(k), for d below 2^63
ltU64(d, k) == IF k < 0 THEN TRUE ELSE d < k

\* Reader.Discard(k)
Discard(r, k) ==
  LET s == BufSeek(r, k)
      prevOffset == s.offset - k
  IN IF s.err # "nil"
     THEN [r |-> r, count |-> 0, out |-> <<>>, err |-> s.err]
     ELSE IF prevOffset >= r.size
     THEN [r |-> s.r, count |-> 0, out |-> <<>>, err |-> "EOF"]
     ELSE LET discarded == minU64(k, r.size - prevOffset)
          IN [r |-> [s.r EXCEPT !.n = r.n + discarded], count |-> discarded,
              out |-> <<>>,
              err |-> IF ltU64(discarded, k) THEN "EOF" ELSE "nil"]

\* Reader.Peek(k)
Peek(r, k) == BufPeek(r, k)

\* bytes.Index(s, sep): the 0-based index of the first occurrence, or -1
Index(s, sep) ==
  LET hits == {i \in 0..(Len(s) - Len(sep)) :
                 SubSeq(s, i + 1, i + Len(sep)) = sep}
  IN IF hits = {} THEN -1 ELSE CHOOSE i \in hits : \A j \in hits : i <= j

\* bytes.HasPrefix(s, pre)
startsWith(s, pre) == Len(s) >= Len(pre) /\ SubSeq(s, 1, Len(pre)) = pre

\* copy(dst[at:], from), 0-based at
copyAt(dst, at, from) ==
  [i \in 1..Len(dst) |->
     IF i > at /\ i - at <= Len(from) THEN from[i - at] ELSE dst[i]]

\* the loop of SeekAt: offset bytes searched so far, sbuf the search buffer
RECURSIVE seekLoop(_, _, _, _, _)
seekLoop(r, sig, window, offset, sbuf) ==
  IF offset >= window THEN [r |-> r, found |-> FALSE, err |-> "nil"]
  ELSE
    LET pad  == Len(sig) - 1
        b1   == IF offset > 0
                THEN copyAt(sbuf, 0, SubSeq(sbuf, Len(sbuf) - pad + 1, Len(sbuf)))
                ELSE sbuf
        p    == Peek(r, Len(sbuf) - pad)
        m    == Len(p.out)
        b2   == copyAt(b1, pad, p.out)
        searchBuf == IF offset > 0 THEN SubSeq(b2, 1, pad + m)
                     ELSE SubSeq(b2, pad + 1, pad + m)
        idx  == IF m > 0 THEN Index(searchBuf, sig) ELSE -1
    IN IF p.err = "error" THEN [r |-> p.r, found |-> FALSE, err |-> p.err]
       ELSE IF idx >= 0
       THEN LET d == Discard(p.r, IF offset > 0 THEN idx - pad ELSE idx)
            IN [r |-> d.r, found |-> TRUE, err |-> d.err]
       ELSE IF p.err = "EOF" THEN [r |-> p.r, found |-> FALSE, err |-> "nil"]
       ELSE LET d == Discard(p.r, m)
            IN IF d.err # "nil"
               THEN [r |-> d.r, found |-> FALSE, err |-> d.err]
               ELSE seekLoop(d.r, sig, window, offset + m, b2)

\* SeekAt(r, sig, n), n = window
SeekAt(r, sig, window) ==
  seekLoop(r, sig, window, 0, [i \in 1..(Len(sig) - 1 + r.bufCap) |-> 0])

\* One call of the reader's interface
call(op, arg, res) ==
  /\ ops' = ops + 1
  /\ rd' = res.r
  /\ last' = [op |-> op, arg |-> arg, count |-> res.count, out |-> res.out,
              err |-> res.err, found |-> FALSE, sig |-> <<>>,
              nBefore |-> rd.n, posBefore |-> position(rd)]
  /\ UNCHANGED <<src, exceptReader>>

ReaderInit ==
  /\ src \in Sources
  /\ \E bufCap \in BufCaps, cap \in Caps : rd = NewReader(bufCap, cap)
  /\ last = [op |-> "NewReader", arg |-> 0, count |-> 0, out |-> <<>>,
             err |-> "nil", found |-> FALSE, sig |-> <<>>, nBefore |-> 0,
             posBefore |-> 0]
  /\ ops = 0
  /\ exceptReaderIdle

DoReadByte ==
  /\ ops < MaxOps
  /\ call("ReadByte", 1, ReadByte(rd))

DoRead ==
  /\ ops < MaxOps
  /\ \E len \in Requests : call("Read", len, Read(rd, len))

DoUnread ==
  /\ ops < MaxOps
  /\ \E k \in Requests : call("Unread", k, Unread(rd, k))

DoDiscard ==
  /\ ops < MaxOps
  /\ \E k \in Requests : call("Discard", k, Discard(rd, k))

DoSeekAt ==
  \E sig \in Sigs, window \in Windows :
    LET res == SeekAt(rd, sig, window)
    IN /\ ops < MaxOps
       /\ ops' = ops + 1
       /\ rd' = res.r
       /\ last' = [op |-> "SeekAt", arg |-> window, count |-> 0, out |-> <<>>,
                   err |-> res.err, found |-> res.found, sig |-> sig,
                   nBefore |-> rd.n, posBefore |-> position(rd)]
       /\ UNCHANGED <<src, exceptReader>>

ReaderNext ==
  \/ DoReadByte
  \/ DoRead
  \/ DoUnread
  \/ DoDiscard
  \/ DoSeekAt

ReaderSpec == ReaderInit /\ [][ReaderNext]_readerVars

\* C12: once bytes_read >= max, every later read and read_byte call fails
\* with EOF and yields no byte, whatever remains in the source: from a state
\* at the cap, the reader stays at the cap, and a Read or ReadByte returns
\* (0, EOF) and leaves the position where it was.
C12_ReadsFailAtCap ==
  [][(rd.n >= rd.size /\ ops' # ops)
       => /\ rd'.n >= rd'.size
          /\ last'.op \in {"Read", "ReadByte"}
               => /\ last'.count = 0
                  /\ last'.out = <<>>
                  /\ last'.err = "EOF"
                  /\ position(rd') = position(rd)]_readerVars

\* a Read or ReadByte was refused at a positive cap with source bytes left
C12_Witness ==
  /\ last.op \in {"Read", "ReadByte"}
  /\ rd.size > 0
  /\ last.nBefore >= rd.size
  /\ last.posBefore < Len(src)
  /\ last.err = "EOF"
  /\ last.count = 0

\* C13: over any sequence of read, read_byte and discard calls on a reader
\* with cap max, bytes_read never exceeds max.
C13_WithinBudget == rd.n <= rd.size

\* C14: discard(n), n >= 0, moves the reader forward by exactly the count it
\* returns, the count is min(n, bytes remaining before the end of the source
\* or the cap), and EOF is reported whenever the count is less than n.
C14_DiscardExact ==
  last.op = "Discard"
    => LET remaining == Max(0, Min(Len(src) - last.posBefore,
                                   rd.size - last.nBefore))
       IN /\ position(rd) - last.posBefore = last.count
          /\ last.count = Min(last.arg, remaining)
          /\ last.count < last.arg => last.err = "EOF"

\* C16: when SeekAt finds the target, the reader is positioned at the first
\* byte of the target and the next read returns the target's bytes, also when
\* the occurrence straddles two fills of the buffer. Stated for a reader that
\* had not reached its cap and a target that ends within the cap.
C16_SeekAtPositionsAtTarget ==
  (/\ last.op = "SeekAt" /\ last.found
   /\ last.nBefore = last.posBefore
   /\ position(rd) + Len(last.sig) <= rd.size)
    => /\ SubSeq(src, position(rd) + 1, position(rd) + Len(last.sig)) = last.sig
       /\ Read(rd, Len(last.sig)).out = last.sig

\* C17: SeekAt never advances the reader more than window bytes beyond the
\* position it started from, whether it finds the target or not.
C17_SeekAtWithinWindow ==
  last.op = "SeekAt" => position(rd) - last.posBefore <= last.arg

\* C29: after any sequence of read, read_byte, discard and unread calls on a
\* Bounded Reader, bytes_read() equals the reader's current position counted
\* from where it started: a call that succeeds on a reader for which the two
\* agree leaves them in agreement, so that unread(n) followed by reading the
\* same n bytes again leaves bytes_read() where it was before the unread.
C29_BytesReadIsPosition ==
  (/\ last.op \in {"Read", "ReadByte", "Discard", "Unread"}
   /\ last.err = "nil"
   /\ last.nBefore = last.posBefore)
    => rd.n = position(rd)

\* ------------------------------------------------- BufferedReadSeeker alone
\* Seek(offset, io.SeekStart) followed by Read, over a source whose byte at
\* offset i is i, so that two different slices are never equal.
MaxSeekLen == 4
MaxSeekBuf == 3
MaxSeekReq == 3
MaxSeekOps == 3

SeekData == {[i \in 1..k |-> i - 1] : k \in 1..MaxSeekLen}

NewBufferedReadSeeker(bufSize) ==
  [buf |-> <<>>, bufCap |-> bufSize, currPos |-> 0, off |-> 0, srcOff |-> 0]

\* Seek that moves the source but keeps the bytes it had buffered
BufSeekStartStale(r, offset) ==
  IF offset < 0 THEN [r |-> r, offset |-> -1, err |-> "error"]
  ELSE IF offset >= r.currPos /\ offset < r.currPos + Len(r.buf)
  THEN [r |-> [r EXCEPT !.off = r.off + (offset - (r.currPos + r.off))],
        offset |-> offset, err |-> "nil"]
  ELSE [r |-> [r EXCEPT !.off = 0, !.currPos = offset, !.srcOff = offset],
        offset |-> offset, err |-> "nil"]

\* BufferedReadSeeker.Seek(offset, io.SeekStart)
BufSeekStart(r, offset) ==
  IF offset < 0 THEN [r |-> r, offset |-> -1, err |-> "error"]
  ELSE IF offset >= r.currPos /\ offset < r.currPos + Len(r.buf)
  THEN [r |-> [r EXCEPT !.off = r.off + (offset - (r.currPos + r.off))],
        offset |-> offset, err |-> "nil"]
  ELSE [r |-> [r EXCEPT !.off = 0, !.buf = <<>>, !.currPos = offset,
                        !.srcOff = offset],
        offset |-> offset, err |-> "nil"]

SeekerInit ==
  /\ src \in SeekData
  /\ \E bufSize \in 1..MaxSeekBuf : rd = NewBufferedReadSeeker(bufSize)
  /\ last = [op |-> "New", offset |-> 0, k |-> 0, out |-> <<>>, err |-> "nil"]
  /\ ops = 0
  /\ exceptReaderIdle

\* rs.Seek(int64(offset), io.SeekStart) with 0 <= offset < len(data)
DoSeekStart ==
  /\ ops < MaxSeekOps
  /\ last.op # "Seek"
  /\ \E offset \in 0..(Len(src) - 1) :
       LET s == BufSeekStart(rd, offset)
       IN /\ rd' = s.r
          /\ last' = [op |-> "Seek", offset |-> s.offset, k |-> 0,
                      out |-> <<>>, err |-> s.err]
  /\ UNCHANGED <<src, ops, exceptReader>>

\* rs.Read(buf[:k]) right after the Seek
DoBufRead ==
  /\ last.op = "Seek"
  /\ \E k \in 1..MaxSeekReq :
       LET b == BufRead(rd, k)
       IN /\ rd' = b.r
          /\ last' = [op |-> "Read", offset |-> last.offset, k |-> k,
                      out |-> b.out, err |-> b.err]
  /\ ops' = ops + 1
  /\ UNCHANGED <<src, exceptReader>>

SeekerNext ==
  \/ DoSeekStart
  \/ DoBufRead

SeekerSpec == SeekerInit /\ [][SeekerNext]_readerVars

\* C22: over a byte array data, every Read of k >= 1 bytes that follows
\* Seek(offset, SeekStart) with 0 <= offset < len(data) returns exactly
\* data[offset : min(offset + k, len(data))], whatever seeks and reads came
\* before it.
C22_SeekThenReadReturnsSlice ==
  last.op = "Read"
    => /\ last.out = SubSeq(src, last.offset + 1,
                            Min(last.offset + last.k, Len(src)))
       /\ last.err \in {"nil", "EOF"}

\* the last of MaxSeekOps steps: a Read that follows a Seek into a buffer
\* that earlier steps had filled and moved
C22_Witness ==
  /\ ops = MaxSeekOps
  /\ last.op = "Read"
  /\ Len(last.out) > rd.bufCap
  /\ last.offset > 0
  /\ last.out = SubSeq(src, last.offset + 1, last.offset + last.k)

\* ------------------------------------------------- FileRegistry, any headers
\* Scanners are added one by one with signatures whose hashes collide:
\* hashOf(<<1>>) = hashOf(<<0, 1>>) = 1 and
\* hashOf(<<4>>) = hashOf(<<1, 0>>) = hashOf(<<0, 1, 0>>) = 4.
MaxScanners == 2
MaxDataLen == 3

KeyBytes == {0, 1, 4}
SigLists ==
  { << <<1>> >>, << <<0, 1>> >>, << <<4>> >>, << <<1, 0>> >>,
    << <<0, 1, 0>> >>, << <<1>>, <<1, 0>> >> }
Datas == UNION {[1..k -> KeyBytes] : k \in 0..MaxDataLen}

RegistryInit ==
  /\ registry = newTable
  /\ registered = <<>>
  /\ searched = [data |-> <<>>, accept |-> 0, visited |-> <<>>, done |-> FALSE]
  /\ exceptRegistryIdle

\* FileRegistry.Add(sc); the record of the last search is of the table as it
\* was, and is dropped
Register ==
  /\ Len(registered) < MaxScanners
  /\ \E sigs \in SigLists :
       LET sc == [Ext |-> Len(registered) + 1, Signatures |-> sigs]
       IN /\ registry' = Add(registry, sc)
          /\ registered' = Append(registered, sc)
  /\ searched' = [data |-> <<>>, accept |-> 0, visited |-> <<>>, done |-> FALSE]
  /\ UNCHANGED exceptRegistry

\* FileRegistry.Search(data, handleHeader) with a handleHeader that returns
\* true at its accept-th call (never, if accept is 0). Search leaves the table
\* as it is, so one search per state of the table is followed.
DoSearch ==
  /\ ~searched.done
  /\ \E data \in Datas, accept \in 0..MaxScanners :
       LET visits == SearchIn(registry, data)
       IN searched' =
            [data |-> data, accept |-> accept, done |-> TRUE,
             visited |-> IF accept = 0 \/ accept > Len(visits) THEN visits
                         ELSE SubSeq(visits, 1, accept)]
  /\ UNCHANGED <<registry, registered, exceptRegistry>>

RegistryNext ==
  \/ Register
  \/ DoSearch

RegistrySpec == RegistryInit /\ [][RegistryNext]_registryVars

\* the scanners of regs, from the j-th on, that have pre among their
\* signatures, once per such signature
RECURSIVE scannersFor(_, _, _)
scannersFor(regs, pre, j) ==
  IF j > Len(regs) THEN <<>>
  ELSE [k \in 1..Cardinality({x \in DOMAIN regs[j].Signatures :
                                regs[j].Signatures[x] = pre}) |-> regs[j].Ext]
       \o scannersFor(regs, pre, j + 1)

\* the scanners to visit for data: by increasing prefix length, from length i
RECURSIVE shouldVisit(_, _, _)
shouldVisit(regs, data, i) ==
  IF i > Len(data) THEN <<>>
  ELSE scannersFor(regs, SubSeq(data, 1, i), 1) \o shouldVisit(regs, data, i + 1)

minMp3FrameSize == 100
maxMp3FrameSize == 1500

bitrateMPEG1Layer3 ==
  <<0, 32, 40, 48, 56, 64, 80, 96, 112, 128, 160, 192, 224, 256, 320, 0>>

bitrateMPEG2Layer3 ==
  <<0, 8, 16, 24, 32, 40, 48, 56, 64, 80, 96, 112, 128, 144, 160, 0>>

sampleRateTable ==
  << <<11025, 12000, 8000, 0>>, <<0, 0, 0, 0>>, <<22050, 24000, 16000, 0>>,
     <<44100, 48000, 32000, 0>> >>

\* int(b[0]&0x7F)<<21 | int(b[1]&0x7F)<<14 | int(b[2]&0x7F)<<7 | int(b[3]&0x7F)
parseSynchsafeInt(b) ==
  (b[1] % 128) * 2097152 + (b[2] % 128) * 16384 + (b[3] % 128) * 128
  + (b[4] % 128)

\* skipID3v2Tag: the bytes skipped and the error
skipID3v2Tag(r) ==
  LET p == Peek(r, 10)
  IN IF p.err # "nil" THEN [r |-> p.r, skip |-> 0, err |-> p.err]
     ELSE IF SubSeq(p.out, 1, 3) # <<73, 68, 51>>
     THEN [r |-> p.r, skip |-> 0, err |-> "nil"]
     ELSE LET totalSkipBytes == 10 + parseSynchsafeInt(SubSeq(p.out, 7, 10))
              d == Discard(p.r, totalSkipBytes)
          IN [r |-> d.r, skip |-> totalSkipBytes, err |-> d.err]

\* parseMP3Header on the 4 header bytes, the 32-bit header taken byte by
\* byte: sync and version and layer in hb[2], bitrate, sample rate and
\* padding in hb[3]
parseMP3Header(hb) ==
  LET mpegVersionBits == (hb[2] \div 8) % 4
      layerBits       == (hb[2] \div 2) % 4
      bitrateIndex    == hb[3] \div 16
      sampleRateIndex == (hb[3] \div 4) % 4
      bitrate    == IF mpegVersionBits = 3
                    THEN bitrateMPEG1Layer3[bitrateIndex + 1]
                    ELSE bitrateMPEG2Layer3[bitrateIndex + 1]
      sampleRate == sampleRateTable[mpegVersionBits + 1][sampleRateIndex + 1]
      padding    == (hb[3] \div 2) % 2
      frameSize  == (((1152 * bitrate * 1000) \div sampleRate) \div 8) + padding
      bad        == [ok |-> FALSE, FrameSize |-> 0]
  IN IF Len(hb) < 4 THEN bad
     ELSE IF hb[1] # 255 \/ hb[2] \div 32 # 7 THEN bad
     ELSE IF mpegVersionBits = 1 THEN bad
     ELSE IF layerBits # 1 THEN bad
     ELSE IF bitrateIndex = 0 \/ bitrateIndex = 15 THEN bad
     ELSE IF sampleRateIndex = 3 THEN bad
     ELSE IF sampleRate = 0 THEN bad
     ELSE IF frameSize <= 4 THEN bad
     ELSE [ok |-> TRUE, FrameSize |-> frameSize]

\* the one element of S: with S = {f(x) : x \in {e}} it is f(e), the value of
\* e taken once
The(S) == CHOOSE v \in S : TRUE

\* a ScanFile result: ok is "a *ScanResult was returned"
rejected(r, e) == [r |-> r, ok |-> FALSE, Size |-> 0, err |-> e]

\* the frame loop of ScanMP3 and what follows it
RECURSIVE mp3Frames(_, _, _)
mp3Frames(r, len, numFrames) ==
  LET rr == Read(r, 4)
      header == parseMP3Header(rr.out)
      done == IF numFrames < 2 THEN rejected(rr.r, "error")
              ELSE [r |-> rr.r, ok |-> TRUE, Size |-> len, err |-> "nil"]
  IN IF rr.err = "error" THEN rejected(rr.r, rr.err)
     ELSE IF rr.err = "EOF" THEN done
     ELSE IF ~header.ok THEN done
     ELSE IF header.FrameSize < minMp3FrameSize
             \/ header.FrameSize > maxMp3FrameSize
     THEN rejected(rr.r, "error")
     ELSE LET d == Discard(rr.r, header.FrameSize - 4)
          IN IF d.err # "nil" THEN rejected(d.r, d.err)
             ELSE mp3Frames(d.r, len + header.FrameSize, numFrames + 1)

ScanMP3(r) ==
  LET t == skipID3v2Tag(r)
  IN IF t.err # "nil" THEN rejected(t.r, "error")
     ELSE mp3Frames(t.r, t.skip, 0)

\* The streams ScanMP3 is run on: an optional ID3v2 tag of 2 bytes, then
\* MPEG 1 Layer III frames of 32 kbps at 44100 Hz (104 bytes each), the whole
\* cut at any length.
MaxFrames == 2

id3Tag == <<73, 68, 51, 3, 0, 0, 0, 0, 0, 2, 0, 0>>
mp3Frame == <<255, 251, 16, 0>> \o [i \in 1..100 |-> 0]

RECURSIVE frames(_)
frames(k) == IF k = 0 THEN <<>> ELSE mp3Frame \o frames(k - 1)

fullStream(tag) == (IF tag THEN id3Tag ELSE <<>>) \o frames(MaxFrames + 1)

Mp3Sources ==
  {SubSeq(fullStream(tag), 1, len) :
     tag \in BOOLEAN, len \in 0..(Len(id3Tag) + MaxFrames * Len(mp3Frame) + 4)}

\* the cap of the reader: the bytes that remain in the source, or a maximum
\* file size beyond them
ScanCaps(s) == {Len(s), Len(fullStream(TRUE)) + 1}
ScanBufCaps == {16, 128}

ValidatorInit ==
  /\ src \in Mp3Sources
  /\ \E bufCap \in ScanBufCaps, cap \in ScanCaps(src) : rd = NewReader(bufCap, cap)
  /\ scanned = [done |-> FALSE, ok |-> FALSE, Size |-> 0, err |-> "nil"]
  /\ exceptValidatorIdle

\* hdr.ScanFile(r) of the mp3 header on a fresh reader
DoScanMP3 ==
  /\ ~scanned.done
  /\ LET res == ScanMP3(rd)
     IN /\ rd' = res.r
        /\ scanned' = [done |-> TRUE, ok |-> res.ok, Size |-> res.Size,
                       err |-> res.err]
  /\ UNCHANGED <<src, exceptValidator>>

ValidatorNext == DoScanMP3

ValidatorSpec == ValidatorInit /\ [][ValidatorNext]_validatorVars

\* the source ends inside the ID3v2 tag or inside a frame
truncated ==
  \E tag \in BOOLEAN :
    LET prologue == IF tag THEN Len(id3Tag) ELSE 0
    IN /\ src # <<>>
       /\ src = SubSeq(fullStream(tag), 1, Len(src))
       /\ \/ Len(src) < prologue
          \/ (Len(src) - prologue) % Len(mp3Frame) # 0

\* C18: a validator that meets truncation (the reader reaches EOF before the
\* file is structurally complete) reports rejection: an error and no size.
C18_TruncationRejected ==
  (scanned.done /\ truncated) => (scanned.err # "nil" /\ ~scanned.ok)

\* the length of the ID3v2 prologue of src: 10 + tag_size, 0 without a tag
prologueLen ==
  IF startsWith(src, <<73, 68, 51>>) /\ Len(src) >= 10
  THEN 10 + parseSynchsafeInt(SubSeq(src, 7, 10))
  ELSE 0

\* the offset just after the last of the consecutive valid frames of src that
\* start at off: a frame is valid when its header parses, its size is in
\* range and all its bytes are in src
RECURSIVE framesEnd(_)
framesEnd(off) ==
  LET header == parseMP3Header(SubSeq(src, off + 1, off + 4))
  IN IF off + 4 <= Len(src) /\ header.ok
        /\ header.FrameSize >= minMp3FrameSize
        /\ header.FrameSize <= maxMp3FrameSize
        /\ off + header.FrameSize <= Len(src)
     THEN framesEnd(off + header.FrameSize)
     ELSE off

\* C28: whenever the MP3 validator accepts, the returned size equals the
\* offset just after the last valid frame: the skipped ID3v2 prologue (10 +
\* tag_size, if present) plus the sum of the sizes of the valid frames.
C28_Mp3SizeIsEndOfFrames ==
  (scanned.done /\ scanned.ok) => scanned.Size = framesEnd(prologueLen)

\* ------------------------------------------------------------------ ScanPNG
\* The stream after the 8-byte PNG header, taken chunk by chunk: each chunk by
\* its type, one chunk at most carrying a checksum that does not match. A
\* chunk's data fits decoder.tmp. "gAMA" stands for every type that
\* parseChunk does not name.
MaxChunks == 4

dsStart == 0
dsSeenIHDR == 1
dsSeenPLTE == 2
dsSeentRNS == 3
dsSeenIDAT == 4
dsSeenIEND == 5

ChunkTypes == {"IHDR", "PLTE", "tRNS", "IDAT", "IEND", "gAMA"}

PngStreams ==
  UNION {[chunks : [1..k -> ChunkTypes], badCrc : 0..k] : k \in 0..MaxChunks}

\* decoder.verifyChecksum for the chunk at index i
verifyChecksum(i) == IF pngIn.badCrc = i THEN "invalid checksum" ELSE "nil"

\* decoder.parseChunk on the chunk at index i
parseChunk(dc, i) ==
  LET type == pngIn.chunks[i]
      read == [dc EXCEPT !.next = i + 1]
      order == [dc |-> read, err |-> "invalid PNG chunk order"]
      to(stage) == [dc |-> [read EXCEPT !.stage = stage],
                    err |-> verifyChecksum(i)]
  IN CASE type = "IHDR" ->
            IF dc.stage # dsStart THEN order ELSE to(dsSeenIHDR)
       [] type = "PLTE" ->
            IF dc.stage # dsSeenIHDR THEN order ELSE to(dsSeenPLTE)
       [] type = "tRNS" -> to(dsSeentRNS)
       [] type = "IDAT" ->
            IF dc.stage < dsSeenIHDR \/ dc.stage > dsSeenIDAT THEN order
            ELSE to(dsSeenIDAT)
       [] type = "IEND" ->
            IF dc.stage # dsSeenIDAT THEN order ELSE to(dsSeenIEND)
       [] OTHER -> to(dc.stage)

PngInit ==
  /\ pngIn \in PngStreams
  /\ dec = [stage |-> dsStart, next |-> 1]
  /\ pngOut = "running"
  /\ exceptPngIdle

\* one turn of `for d.stage != dsSeenIEND` with a chunk left in the stream
ParseChunk ==
  /\ pngOut = "running"
  /\ dec.stage # dsSeenIEND
  /\ dec.next <= Len(pngIn.chunks)
  /\ LET res == parseChunk(dec, dec.next)
     IN /\ dec' = res.dc
        /\ pngOut' = IF res.err = "nil" THEN "running" ELSE res.err
  /\ UNCHANGED <<pngIn, exceptPng>>

\* io.ReadFull of the next chunk's length and type fails: the stream is over
ChunkReadFails ==
  /\ pngOut = "running"
  /\ dec.stage # dsSeenIEND
  /\ dec.next > Len(pngIn.chunks)
  /\ pngOut' = "unexpected EOF"
  /\ UNCHANGED <<pngIn, dec, exceptPng>>

\* return r.BytesRead(), nil
PngAccept ==
  /\ pngOut = "running"
  /\ dec.stage = dsSeenIEND
  /\ pngOut' = "accepted"
  /\ UNCHANGED <<pngIn, dec, exceptPng>>

PngNext ==
  \/ ParseChunk
  \/ ChunkReadFails
  \/ PngAccept

PngSpec == PngInit /\ [][PngNext]_pngVars

\* the chunks that ScanPNG has read
parsed == SubSeq(pngIn.chunks, 1, dec.next - 1)

\* IHDR, then PLTE, tRNS and other ancillary chunks, then one or more
\* consecutive IDAT chunks, then IEND
wellOrdered(cs) ==
  /\ Len(cs) >= 3
  /\ cs[1] = "IHDR"
  /\ cs[Len(cs)] = "IEND"
  /\ \E i \in 2..(Len(cs) - 1) :
       /\ \A j \in 2..(i - 1) : cs[j] \in {"PLTE", "tRNS", "gAMA"}
       /\ \A j \in i..(Len(cs) - 1) : cs[j] = "IDAT"

\* C23: the PNG validator accepts only chunk sequences of the form IHDR, then
\* any number of PLTE, tRNS and other ancillary chunks, then one or more
\* consecutive IDAT chunks, then IEND; every other ordering is rejected.
C23_PngAcceptsOnlyOrdered ==
  pngOut = "accepted" => wellOrdered(parsed)

\* ------------------------------------------------------------------ ScanPDF
pdfHeader == <<37, 80, 68, 70, 45>>
eofMarker == <<37, 37, 69, 79, 70>>
pdfMaxFileSize == 16 * 1024 * 1024

\* the `for` loop of ScanPDF, size the candidate end recorded so far
RECURSIVE pdfLoop(_, _)
pdfLoop(r, psize) ==
  The({
    IF s.err # "nil" THEN rejected(s.r, s.err)
    ELSE IF ~s.found
    THEN IF psize = 0 THEN rejected(s.r, "error")
         ELSE [r |-> s.r, ok |-> TRUE, Size |-> psize, err |-> "nil"]
    ELSE The({
      IF dd.err # "nil" THEN rejected(dd.r, dd.err)
      ELSE pdfLoop(dd.r, dd.r.n - r.n + Len(eofMarker)) :
      dd \in {Discard(s.r, Len(eofMarker))}}) :
    s \in {SeekAt(r, eofMarker, pdfMaxFileSize)}})

ScanPDF(r) ==
  The({
    IF h.err # "nil" THEN rejected(h.r, h.err)
    ELSE IF h.out # pdfHeader THEN rejected(h.r, "error")
    ELSE pdfLoop(h.r, 0) :
    h \in {Read(r, 5)}})

\* The streams ScanPDF is run on: the header, then up to MaxMarkers `%%EOF`
\* markers, each behind a body of up to MaxGap bytes, then a tail.
MaxMarkers == 2
MaxGap == 2

zeros(k) == [i \in 1..k |-> 0]

RECURSIVE pdfBodies(_)
pdfBodies(k) ==
  IF k = 0 THEN {<<>>}
  ELSE {b \o zeros(g) \o eofMarker : b \in pdfBodies(k - 1), g \in 0..MaxGap}

PdfSources ==
  {pdfHeader \o b \o zeros(g) :
     b \in UNION {pdfBodies(k) : k \in 0..MaxMarkers}, g \in 0..MaxGap}

PdfBufCaps == {8, 32}

PdfInit ==
  /\ src \in PdfSources
  /\ \E bufCap \in PdfBufCaps, cap \in {Len(src), pdfMaxFileSize} :
       rd = NewReader(bufCap, cap)
  /\ scanned = [done |-> FALSE, ok |-> FALSE, Size |-> 0, err |-> "nil"]
  /\ exceptValidatorIdle

\* hdr.ScanFile(r) of the pdf header on a fresh reader
DoScanPDF ==
  /\ ~scanned.done
  /\ LET res == ScanPDF(rd)
     IN /\ rd' = res.r
        /\ scanned' = [done |-> TRUE, ok |-> res.ok, Size |-> res.Size,
                       err |-> res.err]
  /\ UNCHANGED <<src, exceptValidator>>

PdfNext == DoScanPDF

PdfSpec == PdfInit /\ [][PdfNext]_validatorVars

\* the offsets of src just after an occurrence of `%%EOF`
markerEnds ==
  {i \in Len(eofMarker)..Len(src) :
     SubSeq(src, i - Len(eofMarker) + 1, i) = eofMarker}

\* C24: for a PDF candidate with one or more `%%EOF` markers inside the
\* search window, the returned size is the position, counted from the first
\* byte of `%PDF-`, of the byte just after the last `%%EOF` found, however
\* many markers precede it.
C24_PdfSizeIsLastMarkerEnd ==
  (scanned.done /\ scanned.ok /\ markerEnds # {})
    => \A i \in markerEnds :
         (\A j \in markerEnds : j <= i) => scanned.Size = i

\* ------------------------------------------------------------------ ScanRAR
RarMHDPasswordFlag == 128

Rar15Signature == <<82, 97, 114, 33, 26, 7, 0>>
Rar50Signature == <<82, 97, 114, 33, 26, 7, 1, 0>>

\* binary.LittleEndian.Uint16 and Uint32, for values below 2^31
le16(b) == b[1] + 256 * b[2]
le32(b) == b[1] + 256 * b[2] + 65536 * b[3] + 16777216 * b[4]

\* flags & mask # 0 for a mask of one bit
bitSet(flags, mask) == (flags \div mask) % 2 = 1

\* a block that readRar15Block gives up on
rarFail(r, e) == [r |-> r, hdrType |-> 0, flags |-> 0, err |-> e]

\* the end of readRar15Block: the rest of a block of payloadSize bytes, nn of
\* them read, is discarded
rarSkip(r, hdrType, flags, payloadSize, nn) ==
  IF payloadSize <= nn THEN rarFail(r, "error")
  ELSE The({IF dd.err # "nil" THEN rarFail(dd.r, dd.err)
            ELSE [r |-> dd.r, hdrType |-> hdrType, flags |-> flags,
                  err |-> "nil"] :
            dd \in {Discard(r, payloadSize - nn)}})

\* readRar15Block behind the 7 bytes h of the block header
rarBlockBody(h, hdrType, flags, headSize) ==
  IF hdrType < 114 \/ hdrType > 123 THEN rarFail(h.r, "error")
  ELSE IF hdrType = 123
  THEN [r |-> h.r, hdrType |-> hdrType, flags |-> flags, err |-> "nil"]
  ELSE IF hdrType \in {116, 117, 122} /\ ~(hdrType = 117 /\ ~bitSet(flags, 8))
  THEN The({IF p.err # "nil" THEN rarFail(p.r, p.err)
            ELSE rarSkip(p.r, hdrType, flags, headSize + le32(p.out),
                         h.count + 4) :
            p \in {Read(h.r, 4)}})
  ELSE IF hdrType = 120
  THEN The({IF p.err # "nil" THEN rarFail(p.r, p.err)
            ELSE rarSkip(p.r, hdrType, flags,
                         headSize + le32(SubSeq(p.out, 1, 4))
                                      * le32(SubSeq(p.out, 5, 8)),
                         h.count + 8) :
            p \in {Read(h.r, 8)}})
  ELSE rarSkip(h.r, hdrType, flags, headSize, h.count)

\* readRar15Block: the type and flags of the block, the reader behind it
readRar15Block(r) ==
  The({IF h.err # "nil" THEN rarFail(h.r, h.err)
       ELSE rarBlockBody(h, h.out[3], le16(SubSeq(h.out, 4, 5)),
                         le16(SubSeq(h.out, 6, 7))) :
       h \in {Read(r, 7)}})

\* the `for` loop of scanRar15
RECURSIVE rar15Blocks(_)
rar15Blocks(r) ==
  The({IF b.err # "nil" THEN rejected(b.r, b.err)
       ELSE IF b.hdrType = 123
       THEN [r |-> b.r, ok |-> TRUE, Size |-> b.r.n, err |-> "nil"]
       ELSE rar15Blocks(b.r) :
       b \in {readRar15Block(r)}})

scanRar15(r) ==
  The({IF b.err # "nil" THEN rejected(b.r, "error")
       ELSE IF b.hdrType # 115 THEN rejected(b.r, "error")
       ELSE IF bitSet(b.flags \div 256, RarMHDPasswordFlag)
       THEN rejected(b.r, "error")
       ELSE rar15Blocks(b.r) :
       b \in {readRar15Block(r)}})

\* ScanRAR; an archive of format 5.0 is not followed further
ScanRAR(r) ==
  The({IF h.err # "nil" THEN rejected(h.r, h.err)
       ELSE IF SubSeq(h.out, 1, 7) = Rar15Signature
       THEN The({IF u.err # "nil" THEN rejected(u.r, u.err)
                 ELSE scanRar15(u.r) :
                 u \in {Unread(h.r, 1)}})
       ELSE rejected(h.r, "error") :
       h \in {Read(r, 8)}})

\* The streams ScanRAR is run on: the 1.5 signature, an archive header of 13
\* bytes, up to MaxRarFiles file blocks (a header of 12 bytes and up to
\* MaxPack bytes of packed data), the terminal block, and a tail of up to
\* MaxTail bytes that follow the archive in the image.
MaxRarFiles == 2
MaxPack == 2
MaxTail == 2

rarArchiveHeader == <<0, 0, 115, 0, 0, 13, 0>> \o zeros(6)
rarFileBlock(pack) == <<0, 0, 116, 0, 0, 12, 0, pack, 0, 0, 0, 0>> \o zeros(pack)
rarEndBlock == <<0, 0, 123, 0, 0, 7, 0>>

RECURSIVE rarFiles(_)
rarFiles(k) ==
  IF k = 0 THEN {<<>>}
  ELSE {f \o rarFileBlock(pack) : f \in rarFiles(k - 1), pack \in 0..MaxPack}

RarSources ==
  {Rar15Signature \o rarArchiveHeader \o f \o rarEndBlock \o zeros(t) :
     f \in UNION {rarFiles(k) : k \in 0..MaxRarFiles}, t \in 0..MaxTail}

RarBufCaps == {8, 64}

RarInit ==
  /\ src \in RarSources
  /\ \E bufCap \in RarBufCaps, cap \in {Len(src), Len(src) + 1} :
       rd = NewReader(bufCap, cap)
  /\ scanned = [done |-> FALSE, ok |-> FALSE, Size |-> 0, err |-> "nil"]
  /\ exceptValidatorIdle

\* hdr.ScanFile(r) of the rar header on a fresh reader
DoScanRAR ==
  /\ ~scanned.done
  /\ LET res == ScanRAR(rd)
     IN /\ rd' = res.r
        /\ scanned' = [done |-> TRUE, ok |-> res.ok, Size |-> res.Size,
                       err |-> res.err]
  /\ UNCHANGED <<src, exceptValidator>>

RarNext == DoScanRAR

RarSpec == RarInit /\ [][RarNext]_validatorVars

\* the offset just after the terminal block: its type byte 0x7B is the third
\* of its 7 bytes
terminalEnd == (CHOOSE i \in DOMAIN src : src[i] = 123) + 4

\* C25: for a RAR 1.5 archive, the size returned on acceptance equals the
\* position just after the terminal block (type 0x7B), counted from the
\* first byte of the 7-byte signature.
C25_RarSizeIsTerminalEnd ==
  (scanned.done /\ scanned.ok) => scanned.Size = terminalEnd

\* ------------------------------------------------------------------ ScanZIP
\* The 32- and 64-bit signatures are kept as the bytes that
\* binary.LittleEndian reads them from.
ZipSignature4 == <<80, 75, 3, 4>>
ZipSignature8 == <<80, 75, 3, 4, 80, 75, 48, 48>>
ZipCentralDirHeader == <<80, 75, 1, 2>>
ZipFileEntryHeader == <<80, 75, 3, 4>>

\* math.MaxUint32 in the source: the widest window the integers here hold
MaxZipFileSize == 2147483647

\* zipDecoder.readHeader; binary.LittleEndian.Uint64 panics on a slice of
\* fewer than 8 bytes, and zbuf is the slice the first Peek returned
readHeader(r) ==
  The({
    IF p4.err # "nil" THEN [r |-> p4.r, err |-> "error"]
    ELSE IF SubSeq(p4.out, 1, 4) = ZipSignature4
    THEN [r |-> p4.r, err |-> "nil"]
    ELSE The({
      IF p8.err # "nil" THEN [r |-> p8.r, err |-> p8.err]
      ELSE IF Len(p4.out) < 8 THEN [r |-> p8.r, err |-> "panic"]
      ELSE IF SubSeq(p4.out, 1, 8) # ZipSignature8
      THEN [r |-> p8.r, err |-> "error"]
      ELSE [r |-> p8.r, err |-> "nil"] :
      p8 \in {Peek(p4.r, 8)}}) :
    p4 \in {Peek(r, 4)}})

zipDescriptorSignature == <<80, 75, 7, 8>>

seekToZIPDescriptor(r) ==
  The({
    IF s.err # "nil" THEN [r |-> s.r, err |-> s.err]
    ELSE IF ~s.found THEN [r |-> s.r, err |-> "error"]
    ELSE The({
      IF desc.err # "nil" THEN [r |-> desc.r, err |-> desc.err]
      ELSE IF SubSeq(desc.out, 1, 4) # zipDescriptorSignature
      THEN [r |-> desc.r, err |-> "error"]
      ELSE [r |-> desc.r, err |-> "nil"] :
      desc \in {Read(s.r, 16)}}) :
    s \in {SeekAt(r, zipDescriptorSignature, MaxZipFileSize)}})

\* parseZipFileEntry behind the extra field: the descriptor or the data
zipEntryData(r, hasDesc, dsize) ==
  IF hasDesc /\ dsize # 0 THEN [r |-> r, err |-> "error"]
  ELSE IF hasDesc THEN seekToZIPDescriptor(r)
  ELSE IF dsize > 0
  THEN The({[r |-> dd.r, err |-> dd.err] : dd \in {Discard(r, dsize)}})
  ELSE [r |-> r, err |-> "nil"]

\* parseZipFileEntry behind the 26 bytes e of the entry: the name, the extra
\* field, then the data
zipEntryBody(e, FilenameLength, ExtraLength, hasDesc, dsize) ==
  The({
    IF name.err # "nil" THEN [r |-> name.r, err |-> name.err]
    ELSE The({
      IF extra.err # "nil" THEN [r |-> extra.r, err |-> extra.err]
      ELSE zipEntryData(extra.r, hasDesc, dsize) :
      extra \in {IF ExtraLength > 0 THEN Discard(name.r, ExtraLength)
                 ELSE [r |-> name.r, err |-> "nil"]}}) :
    name \in {Read(e.r, FilenameLength)}})

\* zipDecoder.parseZipFileEntry, without the file names it remembers
parseZipFileEntry(r) ==
  The({
    IF e.err # "nil" \/ e.count < 26
    THEN [r |-> e.r, err |-> IF e.err = "nil" THEN "EOF" ELSE e.err]
    ELSE zipEntryBody(e, le16(SubSeq(e.out, 23, 24)),
                      le16(SubSeq(e.out, 25, 26)),
                      bitSet(le16(SubSeq(e.out, 3, 4)), 8),
                      IF le16(SubSeq(e.out, 5, 6)) # 0
                      THEN le32(SubSeq(e.out, 15, 18))
                      ELSE le32(SubSeq(e.out, 19, 22))) :
    e \in {Read(r, 26)}})

eocdSig == <<80, 75, 5, 6>>

\* zipDecoder.parseZipCentralDir
parseZipCentralDir(r) ==
  The({
    IF s.err # "nil" THEN [r |-> s.r, zsize |-> 0, err |-> s.err]
    ELSE IF ~s.found THEN [r |-> s.r, zsize |-> 0, err |-> "error"]
    ELSE The({
      IF eocd.err # "nil"
      THEN [r |-> eocd.r, zsize |-> 0, err |-> eocd.err]
      ELSE [r |-> eocd.r,
            zsize |-> eocd.r.n + le16(SubSeq(eocd.out, 21, 22)),
            err |-> "nil"] :
      eocd \in {Read(s.r, 22)}}) :
    s \in {SeekAt(r, eocdSig, 66 * 1024)}})

\* the `for` loop of ScanZIP
RECURSIVE zipRecords(_, _)
zipRecords(r, entries) ==
  The({
    IF h.err # "nil" THEN rejected(h.r, h.err)
    ELSE IF h.out = ZipFileEntryHeader
    THEN The({IF fe.err # "nil" THEN rejected(fe.r, fe.err)
              ELSE zipRecords(fe.r, entries + 1) :
              fe \in {parseZipFileEntry(h.r)}})
    ELSE IF h.out = ZipCentralDirHeader
    THEN IF entries = 0 THEN rejected(h.r, "error")
         ELSE The({IF cd.err # "nil" THEN rejected(cd.r, cd.err)
                   ELSE [r |-> cd.r, ok |-> TRUE, Size |-> cd.zsize,
                         err |-> "nil"] :
                   cd \in {parseZipCentralDir(h.r)}})
    ELSE rejected(h.r, "error") :
    h \in {Read(r, 4)}})

ScanZIP(r) ==
  The({IF h.err # "nil" THEN rejected(h.r, h.err) ELSE zipRecords(h.r, 0) :
       h \in {readHeader(r)}})

\* The streams ScanZIP is run on: a well-formed archive of up to
\* MaxZipEntries stored files of up to MaxZipData bytes, named "a", behind
\* nothing, behind the `PK00` that opens a WinZIP v8 archive, or behind bytes
\* that belong to neither signature.
MaxZipEntries == 2
MaxZipData == 2

zipLocalFile(len) ==
  ZipFileEntryHeader \o zeros(18) \o <<len, 0, 0, 0, 1, 0, 0, 0>> \o <<97>>
    \o zeros(len)
zipCentralFile == ZipCentralDirHeader \o zeros(24) \o <<1>> \o zeros(17) \o <<97>>
zipEOCD(k) == <<80, 75, 5, 6, 0, 0, 0, 0, k, 0, k, 0>> \o zeros(10)

RECURSIVE zipLocals(_)
zipLocals(k) ==
  IF k = 0 THEN {<<>>}
  ELSE {f \o zipLocalFile(len) : f \in zipLocals(k - 1), len \in 0..MaxZipData}

RECURSIVE zipCentrals(_)
zipCentrals(k) == IF k = 0 THEN <<>> ELSE zipCentralFile \o zipCentrals(k - 1)

ZipArchives ==
  UNION {{f \o zipCentrals(k) \o zipEOCD(k) : f \in zipLocals(k)} :
           k \in 1..MaxZipEntries}

winZipPrefix == <<80, 75, 48, 48>>
ZipPrefixes == {<<>>, winZipPrefix, <<0, 0, 0, 0>>, <<77, 90>>}

ZipSources == {p \o a : p \in ZipPrefixes, a \in ZipArchives}

ZipBufCaps == {8, 256}

ZipInit ==
  /\ src \in ZipSources
  /\ \E bufCap \in ZipBufCaps, cap \in {Len(src), Len(src) + 1} :
       rd = NewReader(bufCap, cap)
  /\ scanned = [done |-> FALSE, ok |-> FALSE, Size |-> 0, err |-> "nil"]
  /\ exceptValidatorIdle

\* hdr.ScanFile(r) of the zip header on a fresh reader
DoScanZIP ==
  /\ ~scanned.done
  /\ LET res == ScanZIP(rd)
     IN /\ rd' = res.r
        /\ scanned' = [done |-> TRUE, ok |-> res.ok, Size |-> res.Size,
                       err |-> res.err]
  /\ UNCHANGED <<src, exceptValidator>>

ZipNext == DoScanZIP

ZipSpec == ZipInit /\ [][ZipNext]_validatorVars

\* C26: a stream that begins with the WinZIP v8 variant of the
\* local-file-header signature and is otherwise a well-formed archive is
\* accepted by the ZIP validator as one that begins with PK\x03\x04 is; a
\* stream that begins with neither is rejected with a validator error.
C26_ZipSignatureVariants ==
  scanned.done
    => /\ startsWith(src, winZipPrefix \o ZipSignature4)
            => (scanned.ok /\ scanned.err = "nil")
       /\ (~startsWith(src, ZipSignature4)
           /\ ~startsWith(src, winZipPrefix \o ZipSignature4))
            => (~scanned.ok /\ scanned.err \in {"error", "EOF"})

\* ------------------------------------------------------------------ ScanWAV
fmtChunkSizePCM == 16

\* io.ReadFull(r, buf), len(buf) = len >= 1
readFull(r, len) ==
  The({[r |-> rr.r, count |-> rr.count, out |-> rr.out,
        err |-> IF rr.count >= len THEN "nil"
                ELSE IF rr.err = "error" THEN "error"
                ELSE IF rr.count = 0 THEN "EOF" ELSE "UnexpectedEOF"] :
       rr \in {Read(r, len)}})

\* io.CopyN(io.Discard, r, k) for k below the 8192 bytes of one read
copyN(r, k) ==
  IF k = 0 THEN [r |-> r, count |-> 0, err |-> "nil"]
  ELSE The({[r |-> rr.r, count |-> rr.count,
             err |-> IF rr.count >= k THEN "nil"
                     ELSE IF rr.err = "error" THEN "error" ELSE "EOF"] :
            rr \in {Read(r, k)}})

\* what follows the two loops of ScanWAV
wavTotal(r, bytesRead, riffChunkSize, dataChunkSize) ==
  IF bytesRead + dataChunkSize > riffChunkSize + 8
  THEN [r |-> r, ok |-> TRUE, Size |-> riffChunkSize + 8, err |-> "nil"]
  ELSE The({IF dd.err # "nil"
            THEN IF dd.err = "EOF" /\ dd.count < dataChunkSize
                 THEN [r |-> dd.r, ok |-> TRUE, Size |-> bytesRead + dd.count,
                       err |-> "nil"]
                 ELSE rejected(dd.r, "error")
            ELSE [r |-> dd.r, ok |-> TRUE,
                  Size |-> bytesRead + dataChunkSize, err |-> "nil"] :
            dd \in {Discard(r, dataChunkSize)}})

\* the loop that looks for the 'data' sub-chunk
RECURSIVE wavData(_, _, _)
wavData(r, bytesRead, riffChunkSize) ==
  IF bytesRead >= riffChunkSize + 8 THEN rejected(r, "error")
  ELSE The({
    IF h.err # "nil" THEN rejected(h.r, "error")
    ELSE IF SubSeq(h.out, 1, 4) = <<100, 97, 116, 97>>
    THEN wavTotal(h.r, bytesRead + 8, riffChunkSize, le32(SubSeq(h.out, 5, 8)))
    ELSE The({
      IF c.err # "nil"
      THEN IF c.err = "EOF" /\ c.count < le32(SubSeq(h.out, 5, 8))
           THEN [r |-> c.r, ok |-> TRUE, Size |-> bytesRead + 8 + c.count,
                 err |-> "nil"]
           ELSE rejected(c.r, "error")
      ELSE wavData(c.r, bytesRead + 8 + c.count, riffChunkSize) :
      c \in {copyN(h.r, le32(SubSeq(h.out, 5, 8)))}}) :
    h \in {readFull(r, 8)}})

\* the loop that looks for the 'fmt ' sub-chunk
RECURSIVE wavFmt(_, _, _)
wavFmt(r, bytesRead, riffChunkSize) ==
  IF bytesRead >= riffChunkSize + 8 THEN rejected(r, "error")
  ELSE The({
    IF h.err # "nil" THEN rejected(h.r, "error")
    ELSE IF SubSeq(h.out, 1, 4) = <<102, 109, 116, 32>>
    THEN IF le32(SubSeq(h.out, 5, 8)) # fmtChunkSizePCM
         THEN rejected(h.r, "error")
         ELSE The({
           IF f.err # "nil" THEN rejected(f.r, "error")
           ELSE wavData(f.r, bytesRead + 8 + f.count, riffChunkSize) :
           f \in {readFull(h.r, fmtChunkSizePCM)}})
    ELSE The({
      IF dd.err # "nil" THEN rejected(dd.r, "error")
      ELSE wavFmt(dd.r, bytesRead + 8 + dd.count, riffChunkSize) :
      dd \in {Discard(h.r, le32(SubSeq(h.out, 5, 8)))}}) :
    h \in {readFull(r, 8)}})

ScanWAV(r) ==
  The({
    IF h.err # "nil" THEN rejected(h.r, "error")
    ELSE IF SubSeq(h.out, 1, 4) # <<82, 73, 70, 70>>
    THEN rejected(h.r, "error")
    ELSE The({
      IF w.err # "nil" THEN rejected(w.r, "error")
      ELSE IF w.out # <<87, 65, 86, 69>> THEN rejected(w.r, "error")
      ELSE wavFmt(w.r, 12, le32(SubSeq(h.out, 5, 8))) :
      w \in {readFull(h.r, 4)}}) :
    h \in {readFull(r, 8)}})

\* The streams ScanWAV is run on: a leading tag, the size of what follows,
\* WAVE, a PCM 'fmt ' chunk, at most one LIST chunk of up to MaxWavList bytes
\* and a 'data' chunk of 1..MaxWavData bytes. A RIFX stream carries its sizes
\* in big-endian order.
MaxWavData == 2
MaxWavList == 1

RIFF == <<82, 73, 70, 70>>
RIFX == <<82, 73, 70, 88>>
WavTags == {RIFF, RIFX, <<82, 73, 70, 0>>}

put32(tag, v) == IF tag = RIFX THEN <<0, 0, 0, v>> ELSE <<v, 0, 0, 0>>

wavBody(tag, list, len) ==
  <<87, 65, 86, 69>>
    \o <<102, 109, 116, 32>> \o put32(tag, fmtChunkSizePCM) \o zeros(16)
    \o (IF list < 0 THEN <<>>
        ELSE <<76, 73, 83, 84>> \o put32(tag, list) \o zeros(list))
    \o <<100, 97, 116, 97>> \o put32(tag, len) \o zeros(len)

wavStream(tag, list, len) ==
  tag \o put32(tag, Len(wavBody(tag, list, len))) \o wavBody(tag, list, len)

WavSources ==
  {wavStream(tag, list, len) :
     tag \in WavTags, list \in -1..MaxWavList, len \in 1..MaxWavData}

WavBufCaps == {8, 64}

WavInit ==
  /\ src \in WavSources
  /\ \E bufCap \in WavBufCaps, cap \in {Len(src), Len(src) + 1} :
       rd = NewReader(bufCap, cap)
  /\ scanned = [done |-> FALSE, ok |-> FALSE, Size |-> 0, err |-> "nil"]
  /\ exceptValidatorIdle

\* hdr.ScanFile(r) of the wav header on a fresh reader
DoScanWAV ==
  /\ ~scanned.done
  /\ LET res == ScanWAV(rd)
     IN /\ rd' = res.r
        /\ scanned' = [done |-> TRUE, ok |-> res.ok, Size |-> res.Size,
                       err |-> res.err]
  /\ UNCHANGED <<src, exceptValidator>>

WavNext == DoScanWAV

WavSpec == WavInit /\ [][WavNext]_validatorVars

\* C27: the WAV validator accepts a well-formed stream whose first four bytes
\* are RIFF and equally one whose first four bytes are RIFX (each followed by
\* a size field and WAVE); any other leading tag is rejected.
C27_WavAcceptsRiffAndRifx ==
  scanned.done
    => IF startsWith(src, RIFF) \/ startsWith(src, RIFX)
       THEN scanned.ok /\ scanned.err = "nil"
       ELSE ~scanned.ok /\ scanned.err # "nil"

\* ------------------------------------------------------- report and recover
\* ScanPartition writes one ByteRun per record that Scan yields; RunRecover
\* reads the report back and dumps each entry from the image.
MaxImage == 4
MaxCarves == 2

\* the image whose byte at offset i is i: equal slices are the same slice
Image == [i \in 1..MaxImage |-> i - 1]

\* the bytes of io.NewSectionReader(r, off, len) over the bytes of r
sectionBytes(data, off, len) == SubSeq(data, off + 1, Min(off + len, Len(data)))

\* size := min(opts.MaxScanSize, p.Size)
scanSize == Min(job.MaxScanSize, job.p.Size)

\* r := io.NewSectionReader(f, int64(p.Offset), int64(size))
scanReader == sectionBytes(img, job.p.Offset, scanSize)

ReportInit ==
  /\ img = Image
  /\ \E offset \in 0..(MaxImage - 1) :
       \E psize \in 1..(MaxImage - offset), maxScan \in 0..MaxImage :
         job = [p |-> [Offset |-> offset, Size |-> psize],
                MaxScanSize |-> maxScan]
  /\ report = <<>>
  /\ dumped = <<>>
  /\ recovered = <<>>
  /\ phase = "scan"
  /\ exceptReportIdle

\* the body of `for finfo := range sc.Scan(r, size)`: Scan yields a record
\* that lies in the region; DumpFile(r, ...) and WriteFileObject
YieldFile ==
  /\ phase = "scan"
  /\ Len(report) < MaxCarves
  /\ \E offset \in 0..(scanSize - 1) :
       \E length \in 1..(scanSize - offset) :
         /\ dumped' = Append(dumped, sectionBytes(scanReader, offset, length))
         /\ report' = Append(report, [Offset |-> offset, ImgOffset |-> offset,
                                      Length |-> length])
  /\ UNCHANGED <<img, job, recovered, phase, exceptReport>>

\* "Scan completed!": ScanPartition returns
ScanCompleted ==
  /\ phase = "scan"
  /\ phase' = "reported"
  /\ UNCHANGED <<img, job, report, dumped, recovered, exceptReport>>

\* fileObjectsToFileInfo: Offset and Size from the first run of an entry
fileObjectsToFileInfo(objs) ==
  [i \in DOMAIN objs |-> [Offset |-> objs[i].Offset, Size |-> objs[i].Length]]

\* RunRecover: scan.DumpFile(f, outDir, &finfo) for every entry, f the image
RunRecover ==
  /\ phase = "reported"
  /\ LET finfos == fileObjectsToFileInfo(report)
     IN recovered' = [i \in DOMAIN finfos |->
                        sectionBytes(img, finfos[i].Offset, finfos[i].Size)]
  /\ phase' = "recovered"
  /\ UNCHANGED <<img, job, report, dumped, exceptReport>>

ReportNext ==
  \/ YieldFile
  \/ ScanCompleted
  \/ RunRecover

ReportSpec == ReportInit /\ [][ReportNext]_reportVars

\* C19: the (offset, length) written in the report for a carve, read by
\* recover as an offset into the image, selects exactly the bytes of that
\* carve, for a region that starts at any offset of the image.
C19_RecoverSelectsCarve ==
  phase = "recovered" => recovered = dumped

\* C21: with Options.MaxScanSize equal to 0 the scan that ScanPartition has
\* completed covered the entire partition, all p.Size bytes of it.
C21_ZeroMaxScanSizeScansAll ==
  (phase # "scan" /\ job.MaxScanSize = 0)
    => /\ scanSize = job.p.Size
       /\ scanReader = sectionBytes(img, job.p.Offset, job.p.Size)

\* ------------------------------------------------------- DiscoverPartitions
\* The image file is taken by its length, the signature and the four
\* partition entries of its first sector, and whether the sector an entry
\* points to parses as a FAT boot sector. An entry's type is "gpt"
\* (PartitionTypeGPT), "fat" (one of the six FAT types of the switch) or
\* "other"; every entry starts at LBA 1 and spans one sector.
MaxLenSteps == 8

DefaultBlocksize == 512
mbrSignature == 43605
lenStep == 128

ImageLens == {k * lenStep : k \in 0..MaxLenSteps}
EntryTypes == {"gpt", "fat", "other"}
Disks ==
  [len : ImageLens, signature : {mbrSignature, 0},
   types : [1..4 -> EntryTypes], fatOK : BOOLEAN]

\* what ReadStartLBA and ReadTotalSectors return for an entry
entry == [StartLBA |-> 1, TotalSectors |-> 1]

\* imgFile.ReadAt(buf[:512], off) returns no error
readSectorOK(d, off) == off + 512 <= d.len

\* disk.ParseMBR returns no error
ParseMBROK(d) == d.signature = mbrSignature

\* the partitions of the entries from the n-th (0-based) on
RECURSIVE fatPartitions(_, _)
fatPartitions(d, k) ==
  IF k > 3 THEN <<>>
  ELSE LET offset == entry.StartLBA * DefaultBlocksize
           found  == /\ d.types[k + 1] = "fat"
                     /\ readSectorOK(d, offset)
                     /\ d.fatOK
       IN (IF found
           THEN << [FSType |-> 0, Num |-> k, Offset |-> offset,
                    BlockSize |-> 512, Size |-> entry.TotalSectors * 512] >>
           ELSE <<>>) \o fatPartitions(d, k + 1)

GetMBRPartitions(d) ==
  IF d.types[1] = "gpt"
  THEN << [FSType |-> 0, Num |-> 0,
           Offset |-> entry.StartLBA * DefaultBlocksize,
           BlockSize |-> DefaultBlocksize,
           Size |-> entry.TotalSectors * DefaultBlocksize] >>
  ELSE fatPartitions(d, 0)

fullDiskPartition(diskSize) ==
  [FSType |-> 1, Num |-> 0, Offset |-> 0, Size |-> diskSize,
   BlockSize |-> DefaultBlocksize]

DiscoverPartitions(d) ==
  IF ~readSectorOK(d, 0) THEN [parts |-> <<>>, err |-> "EOF"]
  ELSE IF ParseMBROK(d) /\ Len(GetMBRPartitions(d)) > 0
  THEN [parts |-> GetMBRPartitions(d), err |-> "nil"]
  ELSE [parts |-> <<fullDiskPartition(d.len)>>, err |-> "nil"]

DiscoverInit ==
  /\ disk \in Disks
  /\ discovered = [done |-> FALSE, parts |-> <<>>, err |-> "nil"]
  /\ exceptDiscoverIdle

Discover ==
  /\ ~discovered.done
  /\ LET res == DiscoverPartitions(disk)
     IN discovered' = [done |-> TRUE, parts |-> res.parts, err |-> res.err]
  /\ UNCHANGED <<disk, exceptDiscover>>

DiscoverNext == Discover

DiscoverSpec == DiscoverInit /\ [][DiscoverNext]_discoverVars

\* a partition table is recognized: the first sector is there, carries the
\* MBR signature, and yields at least one partition
recognized(d) ==
  /\ d.len >= 512
  /\ d.signature = mbrSignature
  /\ \/ d.types[1] = "gpt"
     \/ \E k \in 1..4 :
          /\ d.types[k] = "fat"
          /\ readSectorOK(d, entry.StartLBA * DefaultBlocksize)
          /\ d.fatOK

\* C20: for a source in which no partition table is recognized, of any
\* length, discovery returns exactly one region: offset 0, size the length of
\* the source, block size 512.
C20_FallbackWholeSource ==
  (discovered.done /\ ~recognized(disk))
    => /\ discovered.err = "nil"
       /\ Len(discovered.parts) = 1
       /\ discovered.parts[1].Offset = 0
       /\ discovered.parts[1].Size = disk.len
       /\ discovered.parts[1].BlockSize = 512

\* ----------------------------------------------- Scan, any size a validator
\* returns. ScanFile returns a uint64 and scanBuffer converts it with
\* int(size): a size of 2^63 or more becomes a negative int. Such a size is
\* kept here as the int it converts to, -1 for 2^64 - 1.
MaxWide == 1

WideSizes == {-1}

\* n / m of Go for ints: the quotient truncated toward zero
quo(a, b) == IF a >= 0 THEN a \div b ELSE -((-a) \div b)

\* roundToMul(int(size), sc.blockSize) / sc.blockSize
fileBlocks(s) == quo(quo(s + blockSize - 1, blockSize) * blockSize, blockSize)

\* the scanFile calls so far that returned a size of 2^63 or more
wideCalls == {i \in DOMAIN calls : calls[i].res < 0}

\* hdr.ScanFile returns a size of 2^63 or more without error: the record is
\* yielded, `size > 0` holds for the uint64, and the cursor moves by
\* fileBlocks; a negative cursor makes the next sc.buf[blockIdx*sc.blockSize:]
\* panic
ValidatorAcceptWide ==
  /\ pc = "walk"
  /\ pending # <<>>
  /\ Cardinality(wideCalls) < MaxWide
  /\ \E s \in WideSizes, cont \in BOOLEAN :
       /\ calls' = Append(calls, [offset |-> globalOffset, ext |-> Head(pending),
                                  failed |-> FALSE, res |-> s])
       /\ emitted' = Append(emitted, [Offset |-> globalOffset, Size |-> s,
                                      Format |-> Head(pending)])
       /\ stop' = ~cont
       /\ filesFound' = filesFound + 1
       /\ fsize' = s
       /\ pending' = <<>>
       /\ blockIdx' = blockIdx + fileBlocks(s)
       /\ pc' = IF blockIdx + fileBlocks(s) < 0 THEN "panic" ELSE "scan"
  /\ UNCHANGED others
  /\ UNCHANGED <<blockSize, buf, size, blockOffset, n, err, examined,
                 readFailed>>

AnySizeNext ==
  \/ Next
  \/ ValidatorAcceptWide

AnySizeSpec == Init /\ [][AnySizeNext]_vars

\* C30: for every finite region, every block size and every size a validator
\* returns, Scan terminates because the block cursor strictly increases at
\* every step, within a buffer and from one buffer to the next: the offsets
\* handed to Search, in order, are strictly increasing.
C30_CursorStrictlyIncreases ==
  \A i, j \in DOMAIN examined : i < j => examined[i] < examined[j]

====
